---- MODULE Spec2Model ----
(***************************************************************************)
(* Model of the Outlook account creator: the proxy rotator                 *)
(* (proxy_manager.py) and the signup attempt / batch orchestrator          *)
(* (outlook_account_creator.py).                                           *)
(***************************************************************************)
EXTENDS Integers, Sequences, FiniteSets, TLC

\* ---------------------------------------------------------------- bounds
MaxPool == 3
MaxCalls == 5
MaxCount == 2
MaxThreads == 2
MaxLines == 2
MaxLineLen == 3
MaxSurname == 5
MaxButtons == 2
MaxFairCount == 1

\* ------------------------------------------------------------- variables
VARIABLES
    proxies,        \* ProxyManager.proxies: the loaded pool, a sequence
    current_index,  \* ProxyManager.current_index (0-based cursor)
    nextRets,       \* values returned by the get_next_proxy calls so far
    randRets,       \* values returned by the get_random_proxy calls so far
    proxyError,     \* exception raised by a ProxyManager call, "none" if none
    \* --- threads calling get_next_proxy
    lock,           \* ProxyManager.lock: the thread holding it, 0 if free
    tpc,            \* per thread: position inside get_next_proxy
    tproxy,         \* per thread: local variable proxy
    tnext,          \* per thread: the value computed for current_index
    \* --- loading the pool
    proxy_file,     \* the proxy file: "missing" or its lines
    \* --- the disambiguation fragment of the local-part
    second_last_name, \* faker.last_name() as drawn, a sequence of characters
    second_last_4,  \* local second_last_4
    fragments,      \* fragments computed in this attempt so far
    \* --- the Name step, selector by selector
    npc,            \* position inside the Name step
    sel,            \* first-name selectors tried so far
    first_name_input, \* local first_name_input: "None" or "elem"
    first_name_found, \* local first_name_found (create_account)
    first_typed,    \* send_keys(first_name) returned
    last_typed,     \* send_keys(last_name) returned
    next_calls,     \* _click_next_button calls made by the Name step
    \* --- the proxies a batch passes to its attempts
    picks,          \* the proxy argument of each create_account call so far
    \* --- one call of _click_next_button
    cpc,            \* position inside _click_next_button
    csel,           \* entries of next_selectors tried so far
    next_button,    \* local next_button: "None" or "elem"
    located,        \* selectors whose wait returned an element
    nbuttons,       \* len(all_buttons) of the fallback scan
    btn,            \* buttons of the fallback scan looked at so far
    scanned,        \* the fallback scan was started
    activations,    \* clicks that returned without raising
    click_ret,      \* return value of the call: "none" before, "True", "False"
    loaded,         \* _load_proxies has returned
    \* --- instance and configuration
    self_proxy,     \* OutlookAccountCreator.proxy
    proxy_arg,      \* the proxy argument of the call under way
    proxy_list,     \* create_bulk_accounts' proxy_list argument
    cfg_use,        \* config.USE_PROXIES_FOR_OUTLOOK, "missing" if not defined
    cfg_type,       \* config.PROXY_TYPE, "missing" if not defined
    \* --- the generated birth date
    birth_year, birth_month, birth_day,
    birth_date,     \* the formatted string, <<>> before
    \* --- the output file
    file_exists,    \* output_file exists
    fileRows,       \* the rows of output_file, header included
    headerWrites,   \* header rows written by this batch
    \* --- the call under way
    entry,          \* "bulk": create_bulk_accounts; "keep": create_account_keep_open
    count,          \* create_bulk_accounts' count argument
    i,              \* loop index of create_bulk_accounts
    pc,             \* position in the code
    accounts,       \* create_bulk_accounts' accounts list
    csvRows,        \* data rows appended to output_file by this batch
    outcomes,       \* per iteration: what create_account delivered
    summary,        \* <<len(accounts), count>> of the final log line, <<>> before
    \* --- one attempt: identity
    emailGen,       \* number of e-mail addresses generated in this attempt
    typed,          \* number of addresses typed into the username field
    lastTyped,      \* generation number of the address typed last
    takenCount,     \* number of addresses detected as "already taken"
    attempt,        \* loop variable of the username retry loop
    \* --- one attempt: wizard progress
    steps,          \* wizard steps entered so far, in order
    email_accepted, \* local email_accepted
    nextClicked1,   \* _click_next_button returned True after the username
    passwordTyped,  \* the password was typed into the password field
    \* --- one attempt: browser session
    driver,         \* local variable driver: "None" or "open"
    session,        \* the browser process: "none", "live", "closed", "quit_failed"
    quitCalls,      \* number of driver.quit() calls of this attempt
    launches,       \* number of uc.Chrome(...) calls of this attempt
    launchArgs,     \* proxy part of the options of the launch, <<"unset">> before
    \* --- one attempt: challenge wait
    captcha_detected,
    textMarker,     \* page text shows "prove you're human" / "let's prove"
    frameMarker,    \* element with id enforcementFrame is on the page
    elapsed,        \* seconds slept in the wait loop so far
    goneAt,         \* elapsed when the text marker disappeared, -1 before
    raisedAfterGone,\* polls after goneAt whose page read raised
    leftBy,         \* "none", "solved" (break) or "timeout" (while-else)
    leftAt,         \* elapsed at the break, -1 before
    presentAtAllPolls, \* the text marker was on the page at every poll so far
    \* --- one attempt: result
    result,         \* value of the return statement that was executed
    propagated,     \* an exception left the call
    classified,     \* step 6 classified the attempt as Success
    excKind,        \* exception travelling to the outer handlers
    repoll,         \* re-polls done by the grace loops of step 6
    \* --- one attempt: what the steps observed
    noNextAt,       \* step whose _click_next_button call just returned False, 0 if none
    abortCause,     \* why the attempt was ended before its last statement
    captchaNextCalls, \* _click_next_button calls made after the challenge wait
    url6,           \* driver.current_url read at the start of step 6, <<>> before
    urlC,           \* the URL the first classification of step 6 looked at
    text6,          \* the text of the page at the first classification
    waits6          \* 5 s sleeps of step 6 made before the first classification

proxyVars == <<proxies, current_index, nextRets, randRets, proxyError>>
threadVars == <<lock, tpc, tproxy, tnext>>
loadVars == <<proxy_file, loaded>>
birthVars == <<birth_year, birth_month, birth_day, birth_date>>
nameVars == <<second_last_name, second_last_4, fragments>>
nameStepVars == <<npc, sel, first_name_input, first_name_found, first_typed,
                  last_typed, next_calls>>
pickVars == <<picks>>
clickVars == <<cpc, csel, next_button, located, nbuttons, btn, scanned,
               activations, click_ret>>
extraVars == <<nameVars, nameStepVars, pickVars, clickVars>>
envVars == <<threadVars, loadVars, birthVars, extraVars>>
cfgVars == <<self_proxy, proxy_arg, proxy_list, cfg_use, cfg_type>>
fileVars == <<file_exists, fileRows, headerWrites>>
batchVars == <<entry, count, i, accounts, csvRows, outcomes, summary, fileVars>>
idVars == <<emailGen, typed, lastTyped, takenCount, attempt>>
flowVars == <<steps, email_accepted, nextClicked1, passwordTyped>>
sessVars == <<driver, session, quitCalls, launches, launchArgs>>
capVars == <<captcha_detected, textMarker, frameMarker, elapsed, goneAt,
             raisedAfterGone, leftBy, leftAt, presentAtAllPolls>>
resVars == <<result, propagated, classified, excKind, repoll>>
stepObs == <<noNextAt, abortCause>>
outObs == <<url6, urlC, text6, waits6>>
attemptVars == <<idVars, flowVars, sessVars, capVars, resVars, stepObs,
                 captchaNextCalls, outObs>>

vars == <<envVars, cfgVars, proxyVars, batchVars, pc, attemptVars>>

ProxyNames == {"pA", "pB", "pC"}
None == "None"

Pools == UNION {[1..n -> ProxyNames] : n \in 0..MaxPool}

\* ------------------------------------------------------- result values
NoneRes == [kind |-> "None", email |-> <<0, 0>>, password |-> "absent",
            first_name |-> 0, last_name |-> 0, birth_date |-> 0,
            created_at |-> FALSE, driver |-> FALSE, error |-> "absent"]
Pending == [NoneRes EXCEPT !.kind = "pending"]

\* the dict create_account returns on success (a: the attempt whose
\* identity it is, gen: which of the attempt's addresses)
AccountDictStale(a, gen) ==
    [kind |-> "dict", email |-> <<a, gen>>, password |-> "FIXED_PASSWORD",
     first_name |-> a - 1, last_name |-> a - 1, birth_date |-> a - 1,
     created_at |-> TRUE, driver |-> FALSE, error |-> "absent"]
AccountDict(a, gen) ==
    [kind |-> "dict", email |-> <<a, gen>>, password |-> "FIXED_PASSWORD",
     first_name |-> a, last_name |-> a, birth_date |-> a,
     created_at |-> TRUE, driver |-> FALSE, error |-> "absent"]

\* the success-shaped dict of create_account_keep_open
KeepDictNoBirthDate(a, gen) ==
    [AccountDict(a, gen) EXCEPT !.driver = TRUE, !.birth_date = 0]
KeepDict(a, gen) == [AccountDict(a, gen) EXCEPT !.driver = TRUE]

\* {'driver': driver, 'error': msg}
ErrorDict(msg) == [NoneRes EXCEPT !.kind = "dict", !.driver = TRUE, !.error = msg]

\* the dict of the CAPTCHA timeout return of create_account_keep_open
TimeoutDict(a, gen) ==
    [KeepDict(a, gen) EXCEPT !.created_at = FALSE, !.error = "CAPTCHA timeout"]

\* the dict of the outer handlers of create_account_keep_open
ExceptDict ==
    [kind |-> "dict", email |-> <<-1, -1>>, password |-> "None",
     first_name |-> -1, last_name |-> -1, birth_date |-> -1,
     created_at |-> FALSE, driver |-> TRUE, error |-> "exception"]

\* the row create_bulk_accounts writes for an account
CsvRow(account) ==
    [email |-> account.email, password |-> account.password,
     first_name |-> account.first_name, last_name |-> account.last_name,
     birth_date |-> account.birth_date]

\* the rows of output_file: the header row and the account rows
HeaderRow ==
    [kind |-> "header",
     row |-> <<"Email", "Password", "First Name", "Last Name", "Birth Date">>]
DataRow(account) == [kind |-> "row", row |-> CsvRow(account)]

\* a row an earlier batch left in output_file
OldRow == DataRow(AccountDict(0, 1))

\* ------------------------------------------------------------ constants
max_email_attempts == 3
max_wait == 180
poll_sleep == 2
grace_polls == 12

\* ------------------------------------------------- initial attempt state
AttemptReset ==
    /\ emailGen' = 0 /\ typed' = 0 /\ lastTyped' = 0 /\ takenCount' = 0
    /\ attempt' = 0
    /\ steps' = <<>> /\ email_accepted' = FALSE /\ nextClicked1' = FALSE
    /\ passwordTyped' = FALSE
    /\ driver' = "None" /\ session' = "none" /\ quitCalls' = 0
    /\ launches' = 0 /\ launchArgs' = <<"unset">>
    /\ captcha_detected' = FALSE /\ textMarker' = FALSE /\ frameMarker' = FALSE
    /\ elapsed' = 0 /\ goneAt' = -1 /\ raisedAfterGone' = 0
    /\ leftBy' = "none" /\ leftAt' = -1 /\ presentAtAllPolls' = TRUE
    /\ result' = Pending /\ propagated' = FALSE /\ classified' = FALSE
    /\ excKind' = "none" /\ repoll' = 0
    /\ noNextAt' = 0 /\ abortCause' = "none" /\ captchaNextCalls' = 0
    /\ url6' = <<>> /\ urlC' = <<>> /\ text6' = <<>> /\ waits6' = 0

AttemptFresh ==
    /\ emailGen = 0 /\ typed = 0 /\ lastTyped = 0 /\ takenCount = 0
    /\ attempt = 0
    /\ steps = <<>> /\ email_accepted = FALSE /\ nextClicked1 = FALSE
    /\ passwordTyped = FALSE
    /\ driver = "None" /\ session = "none" /\ quitCalls = 0
    /\ launches = 0 /\ launchArgs = <<"unset">>
    /\ captcha_detected = FALSE /\ textMarker = FALSE /\ frameMarker = FALSE
    /\ elapsed = 0 /\ goneAt = -1 /\ raisedAfterGone = 0
    /\ leftBy = "none" /\ leftAt = -1 /\ presentAtAllPolls = TRUE
    /\ result = Pending /\ propagated = FALSE /\ classified = FALSE
    /\ excKind = "none" /\ repoll = 0
    /\ noNextAt = 0 /\ abortCause = "none" /\ captchaNextCalls = 0
    /\ url6 = <<>> /\ urlC = <<>> /\ text6 = <<>> /\ waits6 = 0

BatchFresh ==
    /\ i = 0 /\ accounts = <<>> /\ csvRows = <<>> /\ outcomes = <<>>
    /\ summary = <<>>

\* the threads that call get_next_proxy
Threads == 1..MaxThreads

\* no thread is inside get_next_proxy
ThreadFresh ==
    /\ lock = 0
    /\ tpc = [t \in Threads |-> "idle"]
    /\ tproxy = [t \in Threads |-> None]
    /\ tnext = [t \in Threads |-> 0]

\* no proxy file is being read
LoadFresh ==
    /\ proxy_file = [exists |-> FALSE, lines |-> <<>>]
    /\ loaded = FALSE

\* no fragment was computed yet
NameFresh ==
    /\ second_last_name = <<>> /\ second_last_4 = <<>> /\ fragments = 0

\* the Name step was not entered
NameStepFresh ==
    /\ npc = "off" /\ sel = 0
    /\ first_name_input = "None" /\ first_name_found = FALSE
    /\ first_typed = FALSE /\ last_typed = FALSE /\ next_calls = 0

\* no batch has picked a proxy
PickFresh == picks = <<>>

\* _click_next_button is not under way
ClickFresh ==
    /\ cpc = "off" /\ csel = 0 /\ next_button = "None" /\ located = 0
    /\ nbuttons = 0 /\ btn = 0 /\ scanned = FALSE
    /\ activations = 0 /\ click_ret = "none"

ExtraFresh == NameFresh /\ NameStepFresh /\ PickFresh /\ ClickFresh

\* no birth date was drawn yet
BirthFresh ==
    /\ birth_year = 0 /\ birth_month = 0 /\ birth_day = 0
    /\ birth_date = <<>>

\* config.py as shipped, and an OutlookAccountCreator() built without proxy
CfgShipped ==
    /\ self_proxy = None /\ proxy_arg = None /\ proxy_list = <<>>
    /\ cfg_use = "False" /\ cfg_type = "http"

\* no output file yet
FileFresh ==
    /\ file_exists = FALSE /\ fileRows = <<>> /\ headerWrites = 0

\* ---------------------------------------------------------- ProxyManager
\* ProxyManager.__init__: pool loaded, cursor 0
ProxyInit ==
    /\ proxies \in Pools
    /\ current_index = 0
    /\ nextRets = <<>>
    /\ randRets = <<>>
    /\ proxyError = "none"
    /\ entry = "none" /\ count = 0 /\ pc = "off"
    /\ BatchFresh /\ AttemptFresh
    /\ ThreadFresh /\ ExtraFresh /\ LoadFresh /\ BirthFresh /\ CfgShipped /\ FileFresh

\* `if not self.proxies`
IsEmptyNever(p) == FALSE
IsEmpty(p) == Len(p) = 0

\* `% len(self.proxies)` of the cursor update
WrapNever(k, n) == k
Wrap(k, n) == k % n

\* the cursor update of get_next_proxy
AdvanceIndexStuck(idx, n) == idx % n
AdvanceIndex(idx, n) == Wrap(idx + 1, n)

\* ProxyManager.get_next_proxy; indexing a list outside its range raises
\* IndexError
get_next_proxy ==
    /\ Len(nextRets) + Len(randRets) < MaxCalls
    /\ IF IsEmpty(proxies)
         THEN /\ nextRets' = Append(nextRets, None)
              /\ UNCHANGED <<current_index, proxyError>>
         ELSE IF current_index >= Len(proxies)
                THEN /\ proxyError' = "IndexError"
                     /\ UNCHANGED <<nextRets, current_index>>
                ELSE /\ nextRets' = Append(nextRets, proxies[current_index + 1])
                     /\ current_index' = AdvanceIndex(current_index, Len(proxies))
                     /\ UNCHANGED proxyError
    /\ UNCHANGED <<envVars, cfgVars, proxies, randRets, batchVars, pc, attemptVars>>

\* the values random.choice(p) can return
ChoicesAny(p) == ProxyNames
Choices(p) == {p[k] : k \in 1..Len(p)}

\* ProxyManager.get_random_proxy; random.choice of an empty sequence raises
\* IndexError
get_random_proxy ==
    /\ Len(nextRets) + Len(randRets) < MaxCalls
    /\ IF IsEmpty(proxies)
         THEN randRets' = Append(randRets, None) /\ UNCHANGED proxyError
         ELSE IF Len(proxies) = 0
                THEN proxyError' = "IndexError" /\ UNCHANGED randRets
                ELSE /\ \E v \in Choices(proxies) :
                          randRets' = Append(randRets, v)
                     /\ UNCHANGED proxyError
    /\ UNCHANGED <<envVars, cfgVars, proxies, current_index, nextRets, batchVars,
                   pc, attemptVars>>

ProxyNext == get_next_proxy \/ get_random_proxy

SpecProxy == ProxyInit /\ [][ProxyNext]_vars

\* ------------------------------------- get_next_proxy called by threads
\* a ProxyManager shared by the threads, no call under way
ThreadsInit == ProxyInit

\* calls of get_next_proxy that were started
Started ==
    Len(nextRets) + Cardinality({t \in Threads : tpc[t] # "idle"})

\* a thread calls get_next_proxy: `if not self.proxies: return None`
TCall ==
    \E t \in Threads :
        /\ tpc[t] = "idle"
        /\ Started < MaxCalls
        /\ IF IsEmpty(proxies)
             THEN nextRets' = Append(nextRets, None) /\ UNCHANGED tpc
             ELSE tpc' = [tpc EXCEPT ![t] = "acquire"] /\ UNCHANGED nextRets
        /\ UNCHANGED <<lock, tproxy, tnext, loadVars, birthVars, extraVars, cfgVars,
                       proxies, current_index, randRets, proxyError,
                       batchVars, pc, attemptVars>>

\* threading.Lock is acquired only while no thread holds it
LockFreeAlways(l) == TRUE
LockFree(l) == l = 0

\* `with self.lock:` entered
TAcquire ==
    \E t \in Threads :
        /\ tpc[t] = "acquire"
        /\ LockFree(lock)
        /\ lock' = t
        /\ tpc' = [tpc EXCEPT ![t] = "read"]
        /\ UNCHANGED <<tproxy, tnext, loadVars, birthVars, extraVars, cfgVars, proxyVars,
                       batchVars, pc, attemptVars>>

\* proxy = self.proxies[self.current_index]
TRead ==
    \E t \in Threads :
        /\ tpc[t] = "read"
        /\ tproxy' = [tproxy EXCEPT ![t] = proxies[current_index + 1]]
        /\ tpc' = [tpc EXCEPT ![t] = "compute"]
        /\ UNCHANGED <<lock, tnext, loadVars, birthVars, extraVars, cfgVars, proxyVars,
                       batchVars, pc, attemptVars>>

\* (self.current_index + 1) % len(self.proxies) is evaluated
TCompute ==
    \E t \in Threads :
        /\ tpc[t] = "compute"
        /\ tnext' = [tnext EXCEPT ![t] = AdvanceIndex(current_index, Len(proxies))]
        /\ tpc' = [tpc EXCEPT ![t] = "store"]
        /\ UNCHANGED <<lock, tproxy, loadVars, birthVars, extraVars, cfgVars, proxyVars,
                       batchVars, pc, attemptVars>>

\* self.current_index = ... is stored
TStore ==
    \E t \in Threads :
        /\ tpc[t] = "store"
        /\ current_index' = tnext[t]
        /\ tpc' = [tpc EXCEPT ![t] = "return"]
        /\ UNCHANGED <<lock, tproxy, tnext, loadVars, birthVars, extraVars, cfgVars,
                       proxies, nextRets, randRets, proxyError,
                       batchVars, pc, attemptVars>>

\* `return proxy` leaves the with block: the lock is released and the
\* caller has the value
TReturn ==
    \E t \in Threads :
        /\ tpc[t] = "return"
        /\ lock' = 0
        /\ nextRets' = Append(nextRets, tproxy[t])
        /\ tpc' = [tpc EXCEPT ![t] = "idle"]
        /\ UNCHANGED <<tproxy, tnext, loadVars, birthVars, extraVars, cfgVars,
                       proxies, current_index, randRets, proxyError,
                       batchVars, pc, attemptVars>>

ThreadsNext == TCall \/ TAcquire \/ TRead \/ TCompute \/ TStore \/ TReturn

SpecThreads == ThreadsInit /\ [][ThreadsNext]_vars

\* ------------------------------------------------- account creation
\* the state after construction, at the call of create_bulk_accounts(count)
\* or of create_account_keep_open()
Init ==
    /\ proxies = <<>> /\ current_index = 0 /\ nextRets = <<>> /\ randRets = <<>>
    /\ proxyError = "none"
    /\ ThreadFresh /\ ExtraFresh /\ LoadFresh /\ BirthFresh /\ CfgShipped
    /\ entry \in {"bulk", "keep"}
    /\ count \in (IF entry = "bulk" THEN 0..MaxCount ELSE {1})
    /\ pc = (IF entry = "bulk" THEN "start" ELSE "gen")
    /\ BatchFresh /\ AttemptFresh
    /\ headerWrites = 0
    /\ IF entry = "bulk"
         THEN \/ file_exists = FALSE /\ fileRows = <<>>
              \/ file_exists = TRUE /\ fileRows = <<HeaderRow, OldRow>>
         ELSE file_exists = FALSE /\ fileRows = <<>>

\* number (1-based) of the attempt under way: iteration i of the batch
att == i + 1

\* where a return statement leads: create_account runs its finally clause,
\* create_account_keep_open has none
ReturnPc == IF entry = "keep" THEN "returned" ELSE "finally"

\* a return of the failure value: None in create_account, {'driver', 'error'}
\* in create_account_keep_open
Failure(msg) == IF entry = "keep" THEN ErrorDict(msg) ELSE NoneRes

\* `if not file_exists`
NeedsHeaderAlways(exists) == TRUE
NeedsHeader(exists) == ~exists

\* create_bulk_accounts, before the loop: os.path.exists(output_file), and
\* the header written with open(output_file, 'w') when the file is not there
BulkStart ==
    /\ pc = "start"
    /\ IF NeedsHeader(file_exists)
         THEN /\ file_exists' = TRUE
              /\ fileRows' = <<HeaderRow>>
              /\ headerWrites' = headerWrites + 1
         ELSE UNCHANGED fileVars
    /\ pc' = "loop"
    /\ UNCHANGED <<envVars, cfgVars, proxyVars,
                   entry, count, i, accounts,
                   csvRows, outcomes, summary, attemptVars>>

\* the proxy create_bulk_accounts passes to create_account in iteration k
PickProxyFirst(list, k) == IF Len(list) > 0 THEN list[1] ELSE None
PickProxy(list, k) ==
    IF Len(list) > 0 THEN list[(k % Len(list)) + 1] ELSE None

\* create_bulk_accounts: loop head, up to the call of create_account
BulkIter ==
    /\ pc = "loop" /\ i < count
    /\ pc' = "gen"
    /\ proxy_arg' = PickProxy(proxy_list, i)
    /\ AttemptReset
    /\ UNCHANGED <<envVars, self_proxy, proxy_list, cfg_use, cfg_type,
                   proxyVars, batchVars>>

\* create_bulk_accounts: the summary after the loop and the return
BulkFinish ==
    /\ pc = "loop" /\ i = count
    /\ summary' = <<Len(accounts), count>>
    /\ pc' = "batch_done"
    /\ UNCHANGED <<envVars, cfgVars, proxyVars,
                   entry, count, i, accounts,
                   csvRows, outcomes, fileVars, attemptVars>>

\* `if account:` of create_bulk_accounts
AnyResultTruthy(r) == TRUE
Truthy(r) == r.kind = "dict"

\* what the call of create_account delivered to the orchestrator
Delivered ==
    IF propagated THEN "raised"
    ELSE IF result.kind = "dict" THEN "success" ELSE "failure"

\* the file after open(output_file, 'a') and writer.writerow([...])
RowsAfterDeferred(rows, account) == rows
RowsAfter(rows, account) == Append(rows, DataRow(account))

\* create_bulk_accounts: the rest of the loop body, after create_account;
\* an exception leaving create_account is not caught by the loop
BulkAfter ==
    /\ pc = "returned" /\ entry = "bulk"
    /\ outcomes' = Append(outcomes, Delivered)
    /\ IF propagated
         THEN /\ pc' = "batch_aborted"
              /\ UNCHANGED <<i, accounts, csvRows, fileRows, file_exists>>
         ELSE /\ IF Truthy(result)
                   THEN /\ accounts' = Append(accounts, result)
                        /\ csvRows' = Append(csvRows, CsvRow(result))
                        /\ fileRows' = RowsAfter(fileRows, result)
                        /\ file_exists' = TRUE
                   ELSE UNCHANGED <<accounts, csvRows, fileRows, file_exists>>
              /\ i' = i + 1
              /\ pc' = "loop"
    /\ UNCHANGED <<envVars, cfgVars, proxyVars,
                   entry, count, summary,
                   headerWrites, attemptVars>>

\* truth value of an Optional[str]: None and "" are false
PyTruthy(x) == x \notin {None, ""}

\* `if proxy: self.proxy = proxy`, then the account details generated at
\* the start of an attempt
GenerateIdentity ==
    /\ pc = "gen"
    /\ self_proxy' = (IF PyTruthy(proxy_arg) THEN proxy_arg ELSE self_proxy)
    /\ emailGen' = 1
    /\ pc' = "create_browser"
    /\ UNCHANGED <<envVars, proxy_arg, proxy_list, cfg_use, cfg_type,
                   proxyVars, batchVars, typed, lastTyped, takenCount, attempt,
                   flowVars, sessVars, capVars, resVars, stepObs,
                   captchaNextCalls, outObs>>

\* getattr(config, 'USE_PROXIES_FOR_OUTLOOK', True)
UseProxiesAlways == TRUE
UseProxies == cfg_use # "False"

\* getattr(config, 'PROXY_TYPE', 'socks5')
ProxyType == IF cfg_type = "missing" THEN "socks5" ELSE cfg_type

\* the proxy part of the ChromeOptions: --proxy-server={type}://{proxy}
\* when `self.proxy and use_proxies`, no proxy argument otherwise
ProxyOption ==
    IF PyTruthy(self_proxy) /\ UseProxies
      THEN <<"--proxy-server", ProxyType, self_proxy>>
      ELSE <<"no-proxy">>

\* where an exception of _create_browser leads: to the outer handlers
AfterBrowserFailureRetry == "create_browser"
AfterBrowserFailure == "except"

\* _create_browser, called by the attempt: uc.Chrome may fail to start; once
\* the browser runs, execute_cdp_cmd or set_page_load_timeout may raise
\* before `driver = ...` of the caller is assigned
CreateBrowser ==
    /\ pc = "create_browser"
    /\ launchArgs' = ProxyOption
    /\ launches' = launches + 1
    /\ \E out \in {"chrome_fails", "setup_fails", "ok"} :
        CASE out = "chrome_fails" ->
                /\ pc' = AfterBrowserFailure /\ excKind' = "other"
                /\ abortCause' = "browser"
                /\ UNCHANGED <<driver, session>>
          [] out = "setup_fails" ->
                /\ session' = "live"
                /\ pc' = AfterBrowserFailure /\ excKind' = "other"
                /\ abortCause' = "browser"
                /\ UNCHANGED driver
          [] out = "ok" ->
                /\ session' = "live" /\ driver' = "open"
                /\ pc' = "load"
                /\ UNCHANGED <<excKind, abortCause>>
    /\ UNCHANGED <<envVars, cfgVars, proxyVars,
                   batchVars, idVars, flowVars, quitCalls, capVars,
                   result, propagated, classified, repoll, noNextAt,
                   captchaNextCalls, outObs>>

\* driver.get(SIGNUP_URL): may raise TimeoutException (page-load timeout)
\* or another WebDriverException
LoadPage ==
    /\ pc = "load"
    /\ \E out \in {"ok", "timeout", "other"} :
        IF out = "ok"
          THEN pc' = "step1" /\ UNCHANGED <<excKind, abortCause>>
          ELSE pc' = "except" /\ excKind' = out /\ abortCause' = "page_load"
    /\ UNCHANGED <<envVars, cfgVars, proxyVars,
                   batchVars, idVars, flowVars, sessVars, capVars,
                   result, propagated, classified, repoll, noNextAt,
                   captchaNextCalls, outObs>>

\* the outer handlers: `except Exception` of create_account, `except
\* TimeoutException` / `except Exception` of create_account_keep_open
OuterExcept ==
    /\ pc = "except"
    /\ IF entry = "keep"
         THEN /\ result' = (IF driver = "open" THEN ExceptDict ELSE NoneRes)
              /\ pc' = "returned"
         ELSE /\ result' = NoneRes
              /\ pc' = "finally"
    /\ UNCHANGED <<envVars, cfgVars, proxyVars,
                   batchVars, idVars, flowVars, sessVars, capVars,
                   propagated, classified, excKind, repoll, stepObs,
                   captchaNextCalls, outObs>>

\* `if driver:` of the finally clause
ShouldQuitNever(d) == FALSE
ShouldQuit(d) == d # "None"

\* the finally clause of create_account: driver.quit(), which may raise
Finally ==
    /\ pc = "finally"
    /\ IF ShouldQuit(driver)
         THEN \E ok \in BOOLEAN :
                /\ quitCalls' = quitCalls + 1
                /\ session' = (IF ok THEN "closed" ELSE "quit_failed")
                /\ propagated' = ~ok
         ELSE UNCHANGED <<quitCalls, session, propagated>>
    /\ pc' = "returned"
    /\ UNCHANGED <<envVars, cfgVars, proxyVars,
                   batchVars, idVars, flowVars, driver,
                   launches, launchArgs, capVars,
                   result, classified, excKind, repoll, stepObs,
                   captchaNextCalls, outObs>>

\* ------------------------------------------------------ wizard steps
\* a `return` of the failure value from inside a step
Abort(msg, cause) ==
    /\ result' = Failure(msg)
    /\ pc' = ReturnPc
    /\ abortCause' = cause

\* an exception that reaches the outer handlers of the attempt
Raise(cause) ==
    /\ pc' = "except"
    /\ excKind' = "other"
    /\ abortCause' = cause

\* STEP 1, first part: the username input is looked up with five selectors
Step1Find ==
    /\ pc = "step1"
    /\ steps' = Append(steps, 1)
    /\ \E out \in {"found", "not_found", "url_raises"} :
        CASE out = "found" ->
                /\ pc' = "step1_type" /\ attempt' = 0
                /\ UNCHANGED <<result, excKind, abortCause>>
          [] out = "not_found" ->
                /\ Abort("No username field found", "no_username_field")
                /\ UNCHANGED <<attempt, excKind>>
          [] out = "url_raises" ->
                /\ Raise("url_step1")
                /\ UNCHANGED <<attempt, result>>
    /\ UNCHANGED <<envVars, cfgVars, proxyVars,
                   batchVars, emailGen, typed, lastTyped, takenCount,
                   email_accepted, nextClicked1, passwordTyped, sessVars,
                   capVars, propagated, classified, repoll, noNextAt,
                   captchaNextCalls, outObs>>

\* outcomes of the conflict check of one typed address; the scan of the
\* alert elements after a detected conflict exists in
\* create_account_keep_open only
CheckOutcomes ==
    {"type_raises", "taken", "ok", "read_raises"}
        \cup (IF entry = "keep" THEN {"taken_scan_raises"} ELSE {})

\* STEP 1, one iteration of `for attempt in range(max_email_attempts)`
Step1Type ==
    /\ pc = "step1_type"
    /\ emailGen' = (IF attempt > 0 THEN emailGen + 1 ELSE emailGen)
    /\ \E out \in CheckOutcomes :
        CASE out = "type_raises" ->
                /\ Abort("exception", "type_error_1")
                /\ UNCHANGED <<typed, lastTyped, takenCount, attempt, email_accepted>>
          [] out = "taken" ->
                /\ typed' = typed + 1 /\ lastTyped' = emailGen'
                /\ takenCount' = takenCount + 1
                /\ IF attempt < max_email_attempts - 1
                     THEN /\ attempt' = attempt + 1
                          /\ UNCHANGED <<pc, result, abortCause>>
                     ELSE /\ Abort("All email attempts taken", "conflicts_exhausted")
                          /\ UNCHANGED attempt
                /\ UNCHANGED email_accepted
          [] out = "taken_scan_raises" ->
                /\ typed' = typed + 1 /\ lastTyped' = emailGen'
                /\ takenCount' = takenCount + 1
                /\ email_accepted' = TRUE
                /\ pc' = "step1_next"
                /\ UNCHANGED <<attempt, result, abortCause>>
          [] out \in {"ok", "read_raises"} ->
                /\ typed' = typed + 1 /\ lastTyped' = emailGen'
                /\ email_accepted' = TRUE
                /\ pc' = "step1_next"
                /\ UNCHANGED <<takenCount, attempt, result, abortCause>>
    /\ UNCHANGED <<envVars, cfgVars, proxyVars,
                   batchVars, steps, nextClicked1, passwordTyped,
                   sessVars, capVars, propagated, classified, excKind, repoll,
                   noNextAt, captchaNextCalls, outObs>>

\* `if not self._click_next_button(...)` of the required steps
ClickFailedIgnored(clicked) == FALSE
ClickFailed(clicked) == ~clicked

\* the step whose continue control was not found, 0 when it was found
NoNext(step, clicked) == IF clicked THEN 0 ELSE step

\* STEP 1, last part: the continue control and the check after it
Step1Next ==
    /\ pc = "step1_next"
    /\ \E clicked \in BOOLEAN :
        /\ noNextAt' = NoNext(1, clicked)
        /\ IF ClickFailed(clicked)
             THEN /\ Abort("No Next button found", "no_next_1")
                  /\ UNCHANGED nextClicked1
             ELSE /\ nextClicked1' = clicked
                  /\ \E post \in {"rejected", "fine", "raises"} :
                       IF post = "rejected"
                         THEN Abort("Email rejected", "rejected_after_next")
                         ELSE pc' = "step2" /\ UNCHANGED <<result, abortCause>>
    /\ UNCHANGED <<envVars, cfgVars, proxyVars,
                   batchVars, idVars, steps, email_accepted,
                   passwordTyped, sessVars, capVars, propagated, classified,
                   excKind, repoll, captchaNextCalls, outObs>>

\* STEP 2: password field, typing, continue control
Step2 ==
    /\ pc = "step2"
    /\ steps' = Append(steps, 2)
    /\ \E out \in {"not_found", "type_raises", "typed"} :
        CASE out = "not_found" ->
                /\ Abort("No password field found", "no_password_field")
                /\ UNCHANGED <<passwordTyped, noNextAt>>
          [] out = "type_raises" ->
                /\ Abort("exception", "type_error_2")
                /\ UNCHANGED <<passwordTyped, noNextAt>>
          [] out = "typed" ->
                /\ passwordTyped' = TRUE
                /\ \E clicked \in BOOLEAN :
                    /\ noNextAt' = NoNext(2, clicked)
                    /\ IF ClickFailed(clicked)
                         THEN Abort("No Next button found after password", "no_next_2")
                         ELSE pc' = "step3" /\ UNCHANGED <<result, abortCause>>
    /\ UNCHANGED <<envVars, cfgVars, proxyVars,
                   batchVars, idVars, email_accepted, nextClicked1,
                   sessVars, capVars, propagated, classified, excKind, repoll,
                   captchaNextCalls, outObs>>

\* outcomes of STEP 3; only create_account reads driver.current_url and
\* driver.title inside the step's try, before the birth date is entered
Step3Outcomes ==
    {"dob_failed", "entered"} \cup (IF entry = "bulk" THEN {"pre_raises"} ELSE {})

\* `if not self._click_next_button(...)` of the optional steps: the result
\* is logged only
OptionalClickFatalStrict(clicked) == ~clicked
OptionalClickFatal(clicked) == FALSE

\* STEP 3: country and birth date; the continue control is not required
Step3 ==
    /\ pc = "step3"
    /\ steps' = Append(steps, 3)
    /\ \E out \in Step3Outcomes :
        CASE out = "dob_failed" ->
                /\ Abort("Failed to enter DOB", "dob_failed")
                /\ noNextAt' = 0
          [] out = "pre_raises" ->
                /\ pc' = "step4" /\ noNextAt' = 0
                /\ UNCHANGED <<result, abortCause>>
          [] out = "entered" ->
                \E clicked \in BOOLEAN :
                    /\ noNextAt' = NoNext(3, clicked)
                    /\ IF OptionalClickFatal(clicked)
                         THEN Abort("No Next button found", "no_next_3")
                         ELSE pc' = "step4" /\ UNCHANGED <<result, abortCause>>
    /\ UNCHANGED <<envVars, cfgVars, proxyVars,
                   batchVars, idVars, email_accepted, nextClicked1,
                   passwordTyped, sessVars, capVars, propagated, classified,
                   excKind, repoll, captchaNextCalls, outObs>>

\* STEP 4: name fields; driver.current_url is read outside the step's try;
\* the continue control is looked for only when a first-name field was
\* found, and is not required
Step4 ==
    /\ pc = "step4"
    /\ steps' = Append(steps, 4)
    /\ \E out \in {"url_raises", "no_first_name", "filled"} :
        CASE out = "url_raises" ->
                /\ Raise("url_step4") /\ noNextAt' = 0
                /\ UNCHANGED result
          [] out = "no_first_name" ->
                /\ pc' = "step5" /\ noNextAt' = 0
                /\ UNCHANGED <<result, excKind, abortCause>>
          [] out = "filled" ->
                \E clicked \in BOOLEAN :
                    /\ noNextAt' = NoNext(4, clicked)
                    /\ UNCHANGED excKind
                    /\ IF OptionalClickFatal(clicked)
                         THEN Abort("No Next button found", "no_next_4")
                         ELSE pc' = "step5" /\ UNCHANGED <<result, abortCause>>
    /\ UNCHANGED <<envVars, cfgVars, proxyVars,
                   batchVars, idVars, email_accepted, nextClicked1,
                   passwordTyped, sessVars, capVars, propagated, classified,
                   repoll, captchaNextCalls, outObs>>

\* ---------------------------------------------------- challenge (step 5)
\* the detection methods: page text, then enforcementFrame, then (in
\* create_account only) verification elements; a read that raises leaves
\* captcha_detected False
Detected(raises, text, frame, verif) ==
    ~raises /\ (text \/ frame \/ (entry = "bulk" /\ verif))

\* STEP 5, detection; the page the wizard has reached shows the text marker
\* and the challenge frame or not
Step5Detect ==
    /\ pc = "step5"
    /\ steps' = Append(steps, 5)
    /\ noNextAt' = 0
    /\ \E raises \in BOOLEAN, text \in BOOLEAN, frame \in BOOLEAN, verif \in BOOLEAN :
        /\ textMarker' = text
        /\ frameMarker' = frame
        /\ captcha_detected' = Detected(raises, text, frame, verif)
        /\ pc' = (IF captcha_detected' THEN "captcha_wait" ELSE "step6")
    /\ UNCHANGED <<envVars, cfgVars, proxyVars,
                   batchVars, idVars, email_accepted, nextClicked1,
                   passwordTyped, sessVars, elapsed, goneAt, raisedAfterGone,
                   leftBy, leftAt, presentAtAllPolls, resVars, abortCause,
                   captchaNextCalls, outObs>>

\* the person at the browser window solves the challenge: its markers
\* leave the page, between two polls
SolveChallenge ==
    /\ pc = "captcha_wait"
    /\ textMarker \/ frameMarker
    /\ textMarker' = FALSE /\ frameMarker' = FALSE
    /\ goneAt' = (IF textMarker THEN elapsed ELSE goneAt)
    /\ UNCHANGED <<envVars, cfgVars, proxyVars,
                   batchVars, pc, idVars, flowVars, sessVars,
                   captcha_detected, elapsed, raisedAfterGone, leftBy, leftAt,
                   presentAtAllPolls, resVars, stepObs, captchaNextCalls, outObs>>

\* the test of one poll: the page was read and shows no text marker
SolvedNever(raises, text) == FALSE
Solved(raises, text) == ~raises /\ ~text

\* _click_next_button calls made once the challenge looks solved: one in
\* create_account, none in create_account_keep_open
NextCallsAfterCaptcha == IF entry = "bulk" THEN 1 ELSE 0

\* the test of `while (time.time() - start_time) < max_wait`
WaitOpenAlways(e) == TRUE
WaitOpen(e) == e < max_wait

\* one iteration of `while (time.time() - start_time) < max_wait`:
\* time.sleep(2), then the page is read inside try / except: pass
CaptchaPoll ==
    /\ pc = "captcha_wait"
    /\ WaitOpen(elapsed)
    /\ elapsed' = elapsed + poll_sleep
    /\ presentAtAllPolls' = (presentAtAllPolls /\ textMarker)
    /\ \E raises \in BOOLEAN :
        /\ raisedAfterGone' =
             (IF raises /\ goneAt # -1 THEN raisedAfterGone + 1 ELSE raisedAfterGone)
        /\ IF Solved(raises, textMarker)
             THEN /\ leftBy' = "solved" /\ leftAt' = elapsed'
                  /\ captchaNextCalls' = NextCallsAfterCaptcha
                  /\ pc' = "step6"
             ELSE UNCHANGED <<leftBy, leftAt, pc, captchaNextCalls>>
    /\ UNCHANGED <<envVars, cfgVars, proxyVars,
                   batchVars, idVars, flowVars, sessVars,
                   captcha_detected, textMarker, frameMarker, goneAt, resVars,
                   stepObs, outObs>>

\* the value returned at the ceiling
TimeoutResult ==
    IF entry = "keep" THEN TimeoutDict(att, emailGen) ELSE NoneRes

\* the else clause of the while loop: the ceiling was reached
CaptchaTimeoutFallsThrough ==
    /\ pc = "captcha_wait"
    /\ elapsed >= max_wait
    /\ leftBy' = "timeout"
    /\ pc' = "step6"
    /\ UNCHANGED <<envVars, cfgVars, proxyVars,
                   batchVars, idVars, flowVars, sessVars,
                   captcha_detected, textMarker, frameMarker, elapsed, goneAt,
                   raisedAfterGone, leftAt, presentAtAllPolls, resVars,
                   stepObs, captchaNextCalls, outObs>>
CaptchaTimeout ==
    /\ pc = "captcha_wait"
    /\ elapsed >= max_wait
    /\ leftBy' = "timeout"
    /\ result' = TimeoutResult
    /\ pc' = ReturnPc
    /\ abortCause' = "captcha_timeout"
    /\ UNCHANGED <<envVars, cfgVars, proxyVars,
                   batchVars, idVars, flowVars, sessVars,
                   captcha_detected, textMarker, frameMarker, elapsed, goneAt,
                   raisedAfterGone, leftAt, presentAtAllPolls,
                   propagated, classified, excKind, repoll, noNextAt,
                   captchaNextCalls, outObs>>

\* ------------------------------------------------------ outcome (step 6)
\* the success dict of the variant under way, built from the local
\* variables email, password, first_name, last_name, birth date
SuccessDictFirstEmail == IF entry = "keep" THEN KeepDict(att, 1)
                                           ELSE AccountDict(att, 1)
SuccessDict == IF entry = "keep" THEN KeepDict(att, emailGen)
                                 ELSE AccountDict(att, emailGen)

\* `needle in text` of Python on a string cut into fragments: the needle's
\* fragments occur next to each other in the text
Contains(text, needle) ==
    \E k \in 1..(Len(text) - Len(needle) + 1) :
        SubSeq(text, k, k + Len(needle) - 1) = needle

\* URLs the browser can show when step 6 reads driver.current_url
Urls ==
    { <<"https://", "outlook.live.com", "/mail/0/">>,
      <<"https://", "outlook.office.com", "/mail/">>,
      <<"https://", "signup.live.com", "/signup?wa=wsignin", "1.0&", "lic=1">>,
      <<"https://", "signup.live.com", "/signup?", "lic=1">>,
      <<"https://", "signup.live.com", "/landing?step=2">>,
      <<"https://", "www.msn.com", "/">> }

\* page texts (lower-cased) the body element can hold at step 6
PageTexts ==
    { <<"welcome", " to your new account">>,
      <<"create", " your account">> }

\* the value of page_text when reading the body element raised
Unreadable == <<"?">>

\* success_indicators of create_account ("bulk") and of
\* create_account_keep_open ("keep")
success_indicators_of(variant) ==
    { <<"outlook.live.com">>, <<"account.microsoft.com">>,
      <<"signup.live.com", "/proofs">>, <<"/signup?wa=wsignin">> }
        \cup (IF variant = "keep"
                THEN { <<"outlook.office.com">>, <<"login.live.com", "/login">> }
                ELSE {})

\* success_indicators of the variant under way
success_indicators == success_indicators_of(entry)

\* the phrases create_account_keep_open looks for in the page text
success_phrases ==
    { <<"welcome">>, <<"you're all set">>, <<"inbox">>, <<"get started">> }

\* any(indicator in current_url for indicator in success_indicators)
UrlSuccess(url) == \E ind \in success_indicators : Contains(url, ind)

\* any(phrase in page_text for phrase in [...])
TextSuccess(text) == \E ph \in success_phrases : Contains(text, ph)

\* is_success of the first classification of a variant: create_account
\* looks at the URL only, create_account_keep_open at the URL and at the
\* page text
IsSuccessOf(variant, url, text) ==
    \/ \E ind \in success_indicators_of(variant) : Contains(url, ind)
    \/ variant = "keep" /\ TextSuccess(text)

\* is_success of the variant under way
IsSuccess(url, text) == IsSuccessOf(entry, url, text)

\* the bookkeeping of the challenge wait is not read after the loop
WaitForgotten ==
    /\ elapsed' = 0 /\ goneAt' = -1 /\ leftAt' = -1 /\ raisedAfterGone' = 0

\* a `return` of the success dict
Succeed ==
    /\ classified' = TRUE
    /\ result' = SuccessDict
    /\ pc' = ReturnPc

\* STEP 6 of create_account: the URL is classified; a URL still at
\* signup.live.com gets a 30 s grace wait
Step6 ==
    /\ pc = "step6" /\ entry = "bulk"
    /\ steps' = Append(steps, 6)
    /\ WaitForgotten
    /\ \/ /\ Raise("url_step6")
          /\ UNCHANGED <<result, classified, repoll, outObs>>
       \/ \E u \in Urls, t \in PageTexts :
            /\ url6' = u /\ urlC' = u /\ text6' = t
            /\ UNCHANGED <<waits6, excKind>>
            /\ IF IsSuccess(u, t)
                 THEN Succeed /\ UNCHANGED <<repoll, abortCause>>
                 ELSE IF Contains(u, <<"signup.live.com">>)
                        THEN /\ pc' = "step6_grace"
                             /\ UNCHANGED <<result, classified, repoll, abortCause>>
                        ELSE /\ result' = NoneRes /\ pc' = ReturnPc
                             /\ abortCause' = "unclear"
                             /\ UNCHANGED <<classified, repoll>>
    /\ UNCHANGED <<envVars, cfgVars, proxyVars,
                   batchVars, idVars, email_accepted, nextClicked1,
                   passwordTyped, sessVars, captcha_detected, textMarker,
                   frameMarker, leftBy, presentAtAllPolls, propagated,
                   noNextAt, captchaNextCalls>>

\* STEP 6 of create_account: time.sleep(30) and the second classification
Step6Grace ==
    /\ pc = "step6_grace"
    /\ repoll' = 1
    /\ \/ /\ Raise("url_step6")
          /\ UNCHANGED <<result, classified>>
       \/ \E u \in Urls :
            /\ UNCHANGED excKind
            /\ IF UrlSuccess(u)
                 THEN Succeed /\ UNCHANGED abortCause
                 ELSE /\ result' = NoneRes /\ pc' = ReturnPc
                      /\ abortCause' = "unclear"
                      /\ UNCHANGED classified
    /\ UNCHANGED <<envVars, cfgVars, proxyVars,
                   batchVars, idVars, flowVars, sessVars, capVars,
                   propagated, noNextAt, captchaNextCalls, outObs>>

\* the first classification of create_account_keep_open, of the URL u and
\* of the page text t (Unreadable when the read of the body raised)
KeepClassify(u, t) ==
    /\ urlC' = u /\ text6' = t
    /\ IF IsSuccess(u, t)
         THEN Succeed /\ UNCHANGED repoll
         ELSE /\ pc' = "step6_repoll" /\ repoll' = 0
              /\ UNCHANGED <<result, classified>>

\* STEP 6 of create_account_keep_open: the URL is read; a URL of the name
\* page (signup.live.com with lic=1) starts a wait, any other URL is
\* classified at once together with the page text
Step6Keep ==
    /\ pc = "step6" /\ entry = "keep"
    /\ steps' = Append(steps, 6)
    /\ WaitForgotten
    /\ \/ /\ Raise("url_step6")
          /\ UNCHANGED <<result, classified, repoll, outObs>>
       \/ \E u \in Urls :
            /\ url6' = u
            /\ UNCHANGED <<waits6, excKind, abortCause>>
            /\ IF Contains(u, <<"signup.live.com">>) /\ Contains(u, <<"lic=1">>)
                 THEN /\ pc' = "step6_namewait"
                      /\ UNCHANGED <<urlC, text6, result, classified, repoll>>
                 ELSE \E t \in PageTexts \cup {Unreadable} : KeepClassify(u, t)
    /\ UNCHANGED <<envVars, cfgVars, proxyVars,
                   batchVars, idVars, email_accepted, nextClicked1,
                   passwordTyped, sessVars, captcha_detected, textMarker,
                   frameMarker, leftBy, presentAtAllPolls, propagated,
                   noNextAt, captchaNextCalls>>

\* STEP 6 of create_account_keep_open: one iteration of the first
\* `for i in range(12)`: time.sleep(5), the URL is read, and the loop is
\* left when it no longer holds lic=1
Step6NameWait ==
    /\ pc = "step6_namewait" /\ waits6 < grace_polls
    /\ waits6' = waits6 + 1
    /\ \/ /\ Raise("url_step6")
       \/ \E u \in Urls :
            /\ UNCHANGED <<excKind, abortCause>>
            /\ pc' = (IF ~Contains(u, <<"lic=1">>) \/ waits6' = grace_polls
                        THEN "step6_classify" ELSE pc)
    /\ UNCHANGED <<envVars, cfgVars, proxyVars,
                   batchVars, idVars, flowVars, sessVars, capVars,
                   result, propagated, classified, repoll, noNextAt,
                   captchaNextCalls, url6, urlC, text6>>

\* STEP 6 of create_account_keep_open: after the wait the URL is read again
\* and classified together with the page text
Step6KeepClassify ==
    /\ pc = "step6_classify"
    /\ \/ /\ Raise("url_step6")
          /\ UNCHANGED <<result, classified, repoll, urlC, text6>>
       \/ /\ \E u \in Urls, t \in PageTexts \cup {Unreadable} : KeepClassify(u, t)
          /\ UNCHANGED <<excKind, abortCause>>
    /\ UNCHANGED <<envVars, cfgVars, proxyVars,
                   batchVars, idVars, flowVars, sessVars, capVars,
                   propagated, noNextAt, captchaNextCalls, url6, waits6>>

\* STEP 6 of create_account_keep_open: one iteration of the second
\* `for i in range(12)`: time.sleep(5), the URL is read and classified
Step6KeepRepoll ==
    /\ pc = "step6_repoll" /\ repoll < grace_polls
    /\ repoll' = repoll + 1
    /\ \/ /\ Raise("url_step6")
          /\ UNCHANGED <<result, classified>>
       \/ \E u \in Urls :
            /\ UNCHANGED <<excKind, abortCause>>
            /\ IF UrlSuccess(u)
                 THEN Succeed
                 ELSE UNCHANGED <<pc, result, classified>>
    /\ UNCHANGED <<envVars, cfgVars, proxyVars,
                   batchVars, idVars, flowVars, sessVars, capVars,
                   propagated, noNextAt, captchaNextCalls, outObs>>

\* STEP 6 of create_account_keep_open: after the 12 re-polls the account
\* data is returned anyway, with the driver
Step6KeepGiveUp ==
    /\ pc = "step6_repoll" /\ repoll = grace_polls
    /\ result' = SuccessDict
    /\ pc' = ReturnPc
    /\ UNCHANGED <<envVars, cfgVars, proxyVars,
                   batchVars, idVars, flowVars, sessVars, capVars,
                   propagated, classified, excKind, repoll, stepObs,
                   captchaNextCalls, outObs>>

Next ==
    \/ BulkStart \/ BulkIter \/ BulkFinish \/ BulkAfter
    \/ GenerateIdentity \/ CreateBrowser \/ LoadPage
    \/ Step1Find \/ Step1Type \/ Step1Next \/ Step2 \/ Step3 \/ Step4
    \/ Step5Detect \/ SolveChallenge \/ CaptchaPoll \/ CaptchaTimeout
    \/ Step6 \/ Step6Grace
    \/ Step6Keep \/ Step6NameWait \/ Step6KeepClassify
    \/ Step6KeepRepoll \/ Step6KeepGiveUp
    \/ OuterExcept \/ Finally

Spec == Init /\ [][Next]_vars

\* ------------------------------------- one attempt up to the launch
\* proxies an instance can be built with, or a call be given
ProxyValues == {None, "", "10.0.0.1:8080"}

\* an OutlookAccountCreator(proxy) at the call of
\* create_account_keep_open(proxy), under any configuration
BrowserInit ==
    /\ proxies = <<>> /\ current_index = 0 /\ nextRets = <<>> /\ randRets = <<>>
    /\ proxyError = "none"
    /\ ThreadFresh /\ ExtraFresh /\ LoadFresh /\ BirthFresh /\ FileFresh
    /\ self_proxy \in ProxyValues
    /\ proxy_arg \in ProxyValues \cup {"10.0.0.2:3128"}
    /\ proxy_list = <<>>
    /\ cfg_use \in {"True", "False", "missing"}
    /\ cfg_type \in {"http", "socks5", "missing"}
    /\ entry = "keep" /\ count = 1 /\ pc = "gen"
    /\ BatchFresh /\ AttemptFresh

BrowserNext == GenerateIdentity \/ CreateBrowser

SpecBrowser == BrowserInit /\ [][BrowserNext]_vars

TypeOK ==
    /\ pc \in {"off", "start", "loop", "gen", "create_browser", "load", "step1",
               "step1_type", "step1_next", "step2", "step3", "step4", "step5",
               "captcha_wait", "step6", "step6_grace", "step6_namewait",
               "step6_classify", "step6_repoll",
               "except", "finally", "returned", "batch_done", "batch_aborted"}
    /\ elapsed \in 0..max_wait + poll_sleep
    /\ typed \in 0..max_email_attempts
    /\ noNextAt \in 0..4
    /\ captchaNextCalls \in 0..1
    /\ repoll \in 0..grace_polls
    /\ waits6 \in 0..grace_polls
    /\ url6 \in Urls \cup {<<>>}
    /\ urlC \in Urls \cup {<<>>}

\* C1: on a non-empty pool of size n the i-th get_next_proxy call of a fresh
\* manager returns proxies[(i-1) mod n] (0-based), wrapping at the list end.
C1_RoundRobin ==
    Len(proxies) > 0 =>
        \A k \in 1..Len(nextRets) :
            nextRets[k] = proxies[((k - 1) % Len(proxies)) + 1]

\* a pool of two or more distinct proxies has wrapped around
C1_Witness ==
    /\ Len(proxies) >= 2
    /\ proxies[1] # proxies[2]
    /\ Len(nextRets) > Len(proxies)
\* ------------------------------------------------------------- claims
\* the call of create_account / create_account_keep_open under way is over
CallEnded == pc \in {"returned", "loop", "batch_done", "batch_aborted"}

\* step s was entered in this attempt
Entered(s) == \E k \in 1..Len(steps) : steps[k] = s

\* C2: at most 3 addresses are typed in one attempt, and when the third one
\* is detected as taken the attempt ends in failure (no address is accepted,
\* no fourth one is generated or typed).
C2_ThirdConflictFails ==
    /\ typed <= max_email_attempts
    /\ emailGen <= max_email_attempts
    /\ takenCount = max_email_attempts =>
          /\ ~email_accepted
          /\ result.kind # "pending"
          /\ ~result.created_at
          /\ ~Entered(2)

\* iterations so far in which create_account returned an account
SuccessIters == {k \in 1..Len(outcomes) : outcomes[k] = "success"}

\* C3: the batch appends exactly one row per successful iteration and none
\* per failed one; the returned list and the final summary both report the
\* number of successes out of count.
C3_RowsPerSuccess ==
    /\ Len(csvRows) = Cardinality(SuccessIters)
    /\ Len(accounts) = Cardinality(SuccessIters)
    /\ pc = "batch_done" =>
          /\ summary = <<Cardinality(SuccessIters), count>>
          /\ Len(outcomes) = count

\* a batch of two with the first iteration failed and the second successful
C3_Witness ==
    /\ pc = "batch_done" /\ count = 2
    /\ outcomes = <<"failure", "success">>
    /\ Len(csvRows) = 1

\* C4: create_bulk_accounts always runs exactly count attempts; no failure
\* inside an attempt (closing the browser included) ends the batch early.
C4_RunsAllAttempts ==
    /\ pc # "batch_aborted"
    /\ pc = "batch_done" => (i = count /\ Len(outcomes) = count)

\* the k-th successful iteration, in order
RECURSIVE NthSuccess(_, _)
NthSuccess(n, from) ==
    IF from > Len(outcomes) THEN 0
    ELSE IF outcomes[from] = "success"
           THEN (IF n = 1 THEN from ELSE NthSuccess(n - 1, from + 1))
           ELSE NthSuccess(n, from + 1)

\* C5: every row carries the identity of an attempt classified as Success,
\* in the order of the successes; no field of the identity of a failed
\* attempt is in the file.
C5_RowsAreSuccessIdentities ==
    /\ \A j \in 1..Len(csvRows) :
          LET k == NthSuccess(j, 1) IN
            /\ k # 0
            /\ csvRows[j].email[1] = k
            /\ csvRows[j].email[2] \in 1..max_email_attempts
            /\ csvRows[j].password = "FIXED_PASSWORD"
            /\ csvRows[j].first_name = k
            /\ csvRows[j].last_name = k
            /\ csvRows[j].birth_date = k
    /\ (entry = "bulk" /\ pc = "returned" /\ result.kind = "dict") => classified

\* the second iteration of a batch succeeded after the first failed, and
\* its row is in the file
C5_Witness ==
    /\ outcomes = <<"failure", "success">>
    /\ Len(csvRows) = 1 /\ csvRows[1].first_name = 2

\* C6: in create_account a session that was opened (driver assigned) is
\* closed by exactly one driver.quit() before the call ends, on every path,
\* and not before the finally clause.
C6_ClosedExactlyOnce ==
    entry = "bulk" =>
        quitCalls = (IF driver = "open" /\ CallEnded THEN 1 ELSE 0)

\* a successful attempt has ended with its session closed
C6_Witness ==
    /\ entry = "bulk" /\ pc = "returned" /\ classified
    /\ quitCalls = 1 /\ session = "closed"

\* C7: a browser session that was launched is, at the end of the attempt,
\* either closed by the attempt or handed to the caller in the result.
C7_NeverDropped ==
    (CallEnded /\ session # "none") =>
        \/ quitCalls >= 1
        \/ (result.kind = "dict" /\ result.driver)

\* C8: the wizard steps are entered in the order 1..6, each at most once and
\* never backwards, and the password is typed only after an address was
\* accepted and the continue control after it was activated.
C8_ForwardOrder ==
    /\ Len(steps) <= 6
    /\ \A k \in 1..Len(steps) : steps[k] = k
    /\ passwordTyped => (email_accepted /\ nextClicked1 /\ Entered(2))

\* all six steps were entered in one attempt
C8_Witness ==
    /\ steps = <<1, 2, 3, 4, 5, 6>>
    /\ passwordTyped

C10_LeavesAtFirstTick ==
    /\ elapsed % poll_sleep = 0
    /\ (goneAt # -1 /\ goneAt < max_wait /\ elapsed >= goneAt + poll_sleep) =>
          (leftBy = "solved" /\ leftAt = goneAt + poll_sleep)

\* C10 (amended): polls are 2 s apart, and when the text marker disappears
\* at a time t before the ceiling the wait loop is left at the first poll
\* after t whose page read does not raise; polls whose read raises are
\* skipped, and if every poll after t raises the loop ends at the ceiling.
C10_LeavesAtFirstReadableTick ==
    /\ elapsed % poll_sleep = 0
    /\ (goneAt # -1 /\ goneAt < max_wait /\ elapsed >= goneAt + poll_sleep) =>
          \/ /\ leftBy = "solved"
             /\ leftAt = goneAt + poll_sleep * (raisedAfterGone + 1)
             /\ leftAt <= max_wait
          \/ /\ leftBy # "solved"
             /\ elapsed = goneAt + poll_sleep * raisedAfterGone

\* the marker went at t = 10 s, the poll at 12 s raised, the loop was left
\* at 14 s
C10_Witness ==
    /\ goneAt = 10 /\ raisedAfterGone = 1
    /\ leftBy = "solved" /\ leftAt = 14

\* the attempt whose state the attempt variables hold is the current one
InAttempt == pc \notin {"off", "loop", "batch_done", "batch_aborted"}

\* C11: a detected challenge holds the attempt back: step 6 is reached from
\* the wait loop only when the text marker and the challenge frame have
\* left the page.
C11_AdvancesOnlyWhenChallengeGone ==
    (captcha_detected /\ leftBy = "solved" /\ pc = "step6") =>
        (~textMarker /\ ~frameMarker)

\* C12: in both variants, when the wait loop is left because the marker has
\* gone, _click_next_button is called once before step 6.
C12_NextAfterChallenge ==
    (captcha_detected /\ leftBy = "solved") => captchaNextCalls = 1

\* C13: a URL read at the start of step 6 that holds a success marker makes
\* the attempt a Success with the full record, without any wait.
C13_MarkerUrlIsSuccessAtOnce ==
    (InAttempt /\ url6 # <<>> /\ UrlSuccess(url6)) =>
        /\ classified
        /\ result = SuccessDict
        /\ waits6 = 0 /\ repoll = 0

\* the first classification of step 6 found no success marker
FirstInconclusive ==
    urlC # <<>> /\ ~UrlSuccess(urlC) /\ ~TextSuccess(text6)

\* C14: after an inconclusive first classification the attempt ends either
\* as a Success found by one of at most 12 re-polls, or as a Failure after
\* all 12 re-polls (60 s); never earlier and never otherwise.
C14_InconclusiveRepolls ==
    (InAttempt /\ FirstInconclusive /\ excKind = "none"
        /\ result.kind # "pending") =>
        \/ classified /\ repoll \in 1..grace_polls
        \/ /\ ~classified /\ repoll = grace_polls
           /\ ~(result.kind = "dict" /\ result.created_at)

\* C15: a Success-shaped result (a dict with created_at and no error) is
\* returned only by an attempt some classification of which found a
\* success marker.
C15_NoEvidenceNoSuccess ==
    (result.kind = "dict" /\ result.created_at /\ result.error = "absent") =>
        classified

\* C16: in both variants, a URL holding a listed substring or a page text
\* holding a listed phrase at the first classification makes the attempt a
\* Success.
C16_BothAllowLists ==
    (InAttempt /\ urlC # <<>> /\ (UrlSuccess(urlC) \/ TextSuccess(text6))) =>
        (classified /\ result = SuccessDict)

\* C17: a _click_next_button call that finds no continue control ends the
\* attempt in failure after the username step and after the password step,
\* and lets the attempt go on to the next step after the country/birth-date
\* step and after the name step.
C17_NextRequiredOrOptional ==
    /\ noNextAt = 1 =>
          /\ result = Failure("No Next button found")
          /\ ~Entered(2) /\ ~classified
    /\ noNextAt = 2 =>
          /\ result = Failure("No Next button found after password")
          /\ ~Entered(3) /\ ~classified
    /\ noNextAt = 3 => (pc = "step4" /\ result = Pending)
    /\ noNextAt = 4 => (pc = "step5" /\ result = Pending)

\* no continue control was found after the name step and step 5 is next
C17_Witness ==
    /\ noNextAt = 4 /\ pc = "step5"
    /\ steps = <<1, 2, 3, 4>>

\* what the attempt may be ended by before step 6: a failure of the browser
\* launch or page load, a failure or exception of the username or password
\* step, or the challenge timeout
CriticalCauses ==
    {"browser", "page_load", "url_step1", "no_username_field", "type_error_1",
     "conflicts_exhausted", "no_next_1", "rejected_after_next",
     "no_password_field", "type_error_2", "no_next_2", "captcha_timeout"}

\* C18: before step 6 an attempt is ended only by a critical-step failure;
\* nothing that happens in the country/birth-date step or in the name step
\* ends it.
C18_OnlyCriticalAborts ==
    (abortCause # "none" /\ ~Entered(6)) => abortCause \in CriticalCauses

\* C19: an accepted address is the one generated last; a Success
\* record holds the last address typed, built on the names generated at
\* the start of the attempt, and the configured password.
C19_IdentityFixed ==
    /\ email_accepted => (lastTyped = emailGen /\ lastTyped >= 1)
    /\ (InAttempt /\ classified) =>
          /\ email_accepted
          /\ result.email = <<att, lastTyped>>
          /\ result.email[1] = result.first_name
          /\ result.first_name = att /\ result.last_name = att
          /\ result.password = "FIXED_PASSWORD"

\* a Success after one address was found taken and a second one accepted
C19_Witness ==
    /\ InAttempt /\ classified
    /\ takenCount = 1 /\ typed = 2 /\ lastTyped = 2
    /\ result.email = <<att, 2>>

\* every field of the identity is in the record and holds a generated value
Populated(r) ==
    /\ r.kind = "dict"
    /\ r.email[1] >= 1 /\ r.email[2] >= 1
    /\ r.password = "FIXED_PASSWORD"
    /\ r.first_name >= 1 /\ r.last_name >= 1 /\ r.birth_date >= 1

\* C20: the result of an attempt classified as Success, in either variant,
\* holds email, password, first_name, last_name and birth_date, all set,
\* and created_at.
C20_SuccessFullyPopulated ==
    classified => (Populated(result) /\ result.created_at)

\* create_account_keep_open has returned a Success with the driver
C20_Witness ==
    /\ entry = "keep" /\ pc = "returned" /\ classified
    /\ result.driver /\ result.created_at

\* C21: for every loaded pool, after construction and after any sequence
\* of get_next_proxy and get_random_proxy calls, 0 <= current_index <
\* len(proxies).
C21_CursorInRange ==
    current_index >= 0 /\ current_index < Len(proxies)

\* C21 (amended): for every non-empty pool the cursor stays in
\* 0..len(proxies)-1; for an empty pool it stays 0.
C21_CursorInRangeOrZero ==
    IF Len(proxies) > 0
      THEN current_index \in 0..(Len(proxies) - 1)
      ELSE current_index = 0

\* a pool of two proxies after three get_next_proxy calls: the cursor has
\* wrapped and stands at 1
C21_Witness ==
    /\ Len(proxies) = 2 /\ Len(nextRets) = 3 /\ Len(randRets) >= 1
    /\ current_index = 1

\* C22: on an empty pool every get_next_proxy and get_random_proxy call
\* returns None, raises nothing and leaves the cursor and the pool as they
\* were.
C22_EmptyPoolReturnsNone ==
    Len(proxies) = 0 =>
        /\ \A k \in 1..Len(nextRets) : nextRets[k] = None
        /\ \A k \in 1..Len(randRets) : randRets[k] = None
        /\ proxyError = "none"
        /\ current_index = 0

\* an empty pool has answered two calls of each kind
C22_Witness ==
    /\ Len(proxies) = 0
    /\ Len(nextRets) >= 2 /\ Len(randRets) >= 2

\* number of times v is in the sequence s
Count(s, v) == Cardinality({k \in 1..Len(s) : s[k] = v})

\* the values k sequential get_next_proxy calls return
SequentialRets(k) ==
    [j \in 1..k |-> proxies[((j - 1) % Len(proxies)) + 1]]

\* no thread is between acquiring and releasing the lock
NoneInside == \A t \in Threads : tpc[t] \in {"idle", "acquire"}

\* the entries of the pool are pairwise different
DistinctPool ==
    \A a, b \in 1..Len(proxies) : proxies[a] = proxies[b] => a = b

\* C23: under every interleaving of threads calling get_next_proxy on a
\* non-empty pool, at most one thread is inside the locked block, after k
\* completed calls the cursor is k mod n, the values returned are as a
\* multiset those of k sequential calls, and two entries of the pool were
\* handed out numbers of times that differ by at most 1.
C23_ThreadSafeRotation ==
    Len(proxies) > 0 =>
        /\ Cardinality({t \in Threads : tpc[t] \notin {"idle", "acquire"}}) <= 1
        /\ NoneInside => current_index = Len(nextRets) % Len(proxies)
        /\ \A p \in ProxyNames :
              Count(nextRets, p) = Count(SequentialRets(Len(nextRets)), p)
        /\ DistinctPool =>
              \A a, b \in 1..Len(proxies) :
                 Count(nextRets, proxies[a]) - Count(nextRets, proxies[b]) <= 1

\* a thread waits for the lock while another one holds it, on a pool of two
\* different proxies that has been handed out twice already
C23_Witness ==
    /\ Len(proxies) = 2 /\ DistinctPool
    /\ Len(nextRets) >= 2
    /\ \E t, u \in Threads : tpc[t] = "acquire" /\ lock = u /\ tpc[u] = "store"

\* the proxy of the attempt: the one given to the call, else the one the
\* instance holds
SuppliedProxy == IF proxy_arg \notin {None, ""} THEN proxy_arg ELSE self_proxy

\* C24: the session is launched with the proxy exactly when a proxy is
\* supplied and proxy use is not switched off in the configuration;
\* otherwise it is launched with no proxy setting.
C24_ProxyBoundWhenEnabled ==
    launches >= 1 =>
        IF SuppliedProxy \notin {None, ""} /\ cfg_use # "False"
          THEN /\ Len(launchArgs) = 3
               /\ launchArgs[1] = "--proxy-server"
               /\ launchArgs[3] = SuppliedProxy
          ELSE launchArgs = <<"no-proxy">>

\* a session was launched through the proxy given to the call, which
\* replaced the proxy of the instance
C24_Witness ==
    /\ launches = 1 /\ session = "live"
    /\ proxy_arg = "10.0.0.2:3128" /\ cfg_use = "True"
    /\ launchArgs = <<"--proxy-server", "http", "10.0.0.2:3128">>

\* C25: after a page-load timeout on the signup page no exception leaves
\* the call: create_account returns None with the session closed, and
\* create_account_keep_open returns the dict that holds the live driver,
\* an error and None for every identity field.
C25_TimeoutNoCrash ==
    (excKind = "timeout" /\ pc = "returned") =>
        /\ ~propagated
        /\ IF entry = "bulk"
             THEN result = NoneRes /\ session = "closed"
             ELSE result = ExceptDict /\ session = "live"

\* C26: uc.Chrome is called at most once in an attempt, and an attempt
\* whose browser failed to start returns None without a second launch.
C26_OpenedAtMostOnce ==
    /\ launches <= 1
    /\ (abortCause = "browser" /\ pc = "returned") =>
          /\ launches = 1
          /\ result = NoneRes
          /\ ~classified /\ ~propagated /\ steps = <<>>

\* the second attempt of a batch has launched its own browser after the
\* browser of the first one failed to start
C26_Witness ==
    /\ entry = "bulk" /\ i = 1 /\ outcomes = <<"failure">>
    /\ pc = "load" /\ launches = 1 /\ session = "live"

\* the file keeps what it held: it still exists and its rows are a prefix
\* of the rows after the step
KeepsRows ==
    file_exists =>
        /\ file_exists'
        /\ Len(fileRows') >= Len(fileRows)
        /\ SubSeq(fileRows', 1, Len(fileRows)) = fileRows

\* a header is written only into a file that did not exist, once, and it
\* is written when the batch finds no file
HeaderOnce ==
    /\ headerWrites' # headerWrites =>
          /\ ~file_exists /\ headerWrites = 0 /\ headerWrites' = 1
          /\ fileRows' = <<HeaderRow>>
    /\ (pc = "start" /\ pc' # "start" /\ ~file_exists) => headerWrites' = 1

\* C27: create_bulk_accounts writes the header row once and only when the
\* output file does not exist, never truncates or rewrites rows that are
\* in the file, and the number of rows never decreases.
C27_AppendOnly == [][KeepsRows /\ HeaderOnce]_vars

\* a batch has appended a row behind the rows an earlier batch left, and
\* has written no header
C27_Witness ==
    /\ pc = "batch_done" /\ headerWrites = 0
    /\ Len(fileRows) = 3
    /\ fileRows[1].kind = "header" /\ fileRows[2] = OldRow
    /\ fileRows[3].kind = "row" /\ fileRows[3].row.first_name >= 1

\* the attempts of the batch that ended as successes so far
Successes == {j \in 1..Len(outcomes) : outcomes[j] = "success"}

\* the file holds a row with the identity of attempt j
InFile(j) ==
    \E k \in 1..Len(fileRows) :
        fileRows[k].kind = "row" /\ fileRows[k].row.first_name = j

\* C28: at every point of iteration i+1 and later the output file holds
\* the row of every successful earlier iteration, so a stop of the process
\* at any point loses no earlier success.
C28_RowWrittenBeforeNextAttempt ==
    entry = "bulk" =>
        /\ \A j \in Successes : InFile(j)
        /\ Len(outcomes) = (IF pc = "batch_aborted" THEN i + 1 ELSE i)

\* the second attempt is in its challenge wait and the row of the first one
\* is in the file
C28_Witness ==
    /\ entry = "bulk" /\ i = 1 /\ pc = "captcha_wait"
    /\ outcomes = <<"success">> /\ InFile(1)

\* ------------------------------------------------ reading the proxy file
\* the characters of a line (the line end left out) and those str.strip
\* removes
Chars == {" ", "a"}
Whitespace == {" "}

SeqsUpTo(S, n) == UNION {[1..k -> S] : k \in 0..n}

\* the proxy files: a missing one, or up to MaxLines lines
ProxyFiles ==
    {[exists |-> FALSE, lines |-> <<>>]} \cup
    {[exists |-> TRUE, lines |-> ls] :
        ls \in SeqsUpTo(SeqsUpTo(Chars, MaxLineLen), MaxLines)}

RECURSIVE LStrip(_)
LStrip(s) ==
    IF s # <<>> /\ Head(s) \in Whitespace THEN LStrip(Tail(s)) ELSE s

RECURSIVE RStrip(_)
RStrip(s) ==
    IF s # <<>> /\ s[Len(s)] \in Whitespace
    THEN RStrip(SubSeq(s, 1, Len(s) - 1))
    ELSE s

\* line.strip()
Strip(s) == RStrip(LStrip(s))

\* `if line.strip()` of the comprehension
KeptAll(line) == TRUE
Kept(line) == Strip(line) # <<>>

\* ProxyManager._load_proxies: FileNotFoundError gives the empty list
load_proxies(file) ==
    IF ~file.exists THEN <<>>
    ELSE LET kept == SelectSeq(file.lines, Kept)
         IN  [k \in 1..Len(kept) |-> Strip(kept[k])]

LoadInit ==
    /\ proxy_file \in ProxyFiles
    /\ loaded = FALSE
    /\ proxies = <<>>
    /\ current_index = 0
    /\ nextRets = <<>>
    /\ randRets = <<>>
    /\ proxyError = "none"
    /\ entry = "none" /\ count = 0 /\ pc = "off"
    /\ BatchFresh /\ AttemptFresh
    /\ ThreadFresh /\ ExtraFresh /\ BirthFresh /\ CfgShipped /\ FileFresh

\* ProxyManager.__init__
ProxyManagerInit ==
    /\ ~loaded
    /\ proxies' = load_proxies(proxy_file)
    /\ current_index' = 0
    /\ loaded' = TRUE
    /\ UNCHANGED <<proxy_file, nextRets, randRets, proxyError>>
    /\ UNCHANGED <<threadVars, birthVars, extraVars, cfgVars, batchVars, pc, attemptVars>>

LoadNext == ProxyManagerInit

SpecLoad == LoadInit /\ [][LoadNext]_vars

\* ------------------------------------------------------- the birth date
YearRange == <<1974, 2006>>
MonthRange == <<1, 12>>
DayRange == <<1, 28>>

\* random.randint(a, b): both ends included
randint(r) == r[1]..r[2]

DigitChars == <<"0", "1", "2", "3", "4", "5", "6", "7", "8", "9">>

\* str(n) of a natural number
RECURSIVE Decimal(_)
Decimal(n) ==
    IF n < 10 THEN <<DigitChars[n + 1]>>
    ELSE Append(Decimal(n \div 10), DigitChars[(n % 10) + 1])

RECURSIVE ZeroPad(_, _)
ZeroPad(s, w) == IF Len(s) >= w THEN s ELSE ZeroPad(<<"0">> \o s, w)

\* the format specification :02d
FormatPlain(n) == Decimal(n)
Format02d(n) == ZeroPad(Decimal(n), 2)

\* f"{birth_year}-{birth_month:02d}-{birth_day:02d}"
FormatBirthDate(y, m, d) ==
    Decimal(y) \o <<"-">> \o Format02d(m) \o <<"-">> \o Format02d(d)

BirthInit ==
    /\ proxies = <<>>
    /\ current_index = 0
    /\ nextRets = <<>>
    /\ randRets = <<>>
    /\ proxyError = "none"
    /\ entry = "none" /\ count = 0 /\ pc = "off"
    /\ BatchFresh /\ AttemptFresh
    /\ ThreadFresh /\ ExtraFresh /\ LoadFresh /\ BirthFresh /\ CfgShipped /\ FileFresh

\* the birth values of an identity and the birth_date of its result
GenerateBirth ==
    /\ birth_date = <<>>
    /\ \E y \in randint(YearRange), m \in randint(MonthRange),
          d \in randint(DayRange) :
          /\ birth_year' = y
          /\ birth_month' = m
          /\ birth_day' = d
          /\ birth_date' = FormatBirthDate(y, m, d)
    /\ UNCHANGED <<threadVars, loadVars, extraVars, cfgVars, proxyVars,
                   batchVars, pc, attemptVars>>

BirthNext == GenerateBirth

SpecBirth == BirthInit /\ [][BirthNext]_vars

\* a line with a character that is not whitespace
NonBlank(line) == \E k \in 1..Len(line) : line[k] \notin Whitespace

NonBlankLines ==
    {k \in 1..Len(proxy_file.lines) : NonBlank(proxy_file.lines[k])}

\* p is the line without the whitespace around it
Trimmed(p, line) ==
    /\ p # <<>>
    /\ Head(p) \notin Whitespace /\ p[Len(p)] \notin Whitespace
    /\ \E a \in 0..Len(line) :
          /\ a + Len(p) <= Len(line)
          /\ SubSeq(line, a + 1, a + Len(p)) = p
          /\ \A k \in 1..a : line[k] \in Whitespace
          /\ \A k \in (a + Len(p) + 1)..Len(line) : line[k] \in Whitespace

\* the pool is the non-blank lines, trimmed, in the order of the file
PoolIsFile ==
    /\ Len(proxies) = Cardinality(NonBlankLines)
    /\ \E f \in [1..Len(proxies) -> NonBlankLines] :
          /\ \A j, k \in 1..Len(proxies) : j < k => f[j] < f[k]
          /\ \A k \in 1..Len(proxies) :
                Trimmed(proxies[k], proxy_file.lines[f[k]])

\* C29: the loaded pool is exactly the non-blank lines of the file, each
\* stripped of surrounding whitespace, in file order; a missing file gives
\* an empty pool and no exception.
C29_LoadKeepsNonBlankLines ==
    loaded =>
        /\ proxyError = "none"
        /\ current_index = 0
        /\ IF proxy_file.exists THEN PoolIsFile ELSE Len(proxies) = 0

\* a file with a blank line and a padded line has been read
C29_Witness ==
    /\ loaded /\ proxy_file.exists
    /\ Len(proxy_file.lines) = 2
    /\ ~NonBlank(proxy_file.lines[1]) /\ Len(proxy_file.lines[1]) = 1
    /\ Len(proxy_file.lines[2]) = 2 /\ NonBlank(proxy_file.lines[2])
    /\ proxy_file.lines[2][1] \in Whitespace
    /\ Len(proxies) = 1 /\ Len(proxies[1]) = 1

DigitVal(c) == CHOOSE d \in 0..9 : DigitChars[d + 1] = c

IsDigit(c) == \E d \in 0..9 : DigitChars[d + 1] = c

\* int(s) of a sequence of digits
RECURSIVE ParseInt(_)
ParseInt(s) ==
    IF s = <<>> THEN 0
    ELSE 10 * ParseInt(SubSeq(s, 1, Len(s) - 1)) + DigitVal(s[Len(s)])

\* C30: the birth values lie in 1974..2006, 1..12 and 1..28, and birth_date
\* is YYYY-MM-DD: ten characters, four digits of the year, a dash, two
\* digits of the month, a dash, two digits of the day.
C30_BirthDateFormat ==
    birth_date # <<>> =>
        /\ birth_year \in 1974..2006
        /\ birth_month \in 1..12
        /\ birth_day \in 1..28
        /\ Len(birth_date) = 10
        /\ birth_date[5] = "-" /\ birth_date[8] = "-"
        /\ \A k \in {1, 2, 3, 4, 6, 7, 9, 10} : IsDigit(birth_date[k])
        /\ ParseInt(SubSeq(birth_date, 1, 4)) = birth_year
        /\ ParseInt(SubSeq(birth_date, 6, 7)) = birth_month
        /\ ParseInt(SubSeq(birth_date, 9, 10)) = birth_day

\* a date whose month and day both need the padding
C30_Witness ==
    /\ birth_year = 2006 /\ birth_month = 3 /\ birth_day = 7
    /\ birth_date = <<"2", "0", "0", "6", "-", "0", "3", "-", "0", "7">>

\* ------------------------------------- the fragment of the local-part
\* characters of a surname as faker gives it
NameChars == {"O", "z"}

\* str.lower() of one character
LowerChar(c) == IF c = "O" THEN "o" ELSE c

\* str.lower()
Lower(s) == [k \in 1..Len(s) |-> LowerChar(s[k])]

Surnames == SeqsUpTo(NameChars, MaxSurname)

\* the width of the fragment: the literal 4
FragWidth == 4

\* s[:n]
Take(s, n) == SubSeq(s, 1, IF Len(s) < n THEN Len(s) ELSE n)

\* 'x' * n
FillerNone(n) == <<>>
Filler(n) == [k \in 1..n |-> "x"]

\* (second_last_name[:4] if len(second_last_name) >= 4
\*  else second_last_name + 'x' * (4 - len(second_last_name)))[:4]
Fragment(name) ==
    Take(IF Len(name) >= FragWidth
         THEN Take(name, FragWidth)
         ELSE name \o Filler(FragWidth - Len(name)),
         FragWidth)

NameInit ==
    /\ proxies = <<>>
    /\ current_index = 0
    /\ nextRets = <<>>
    /\ randRets = <<>>
    /\ proxyError = "none"
    /\ entry = "none" /\ count = 0 /\ pc = "off"
    /\ BatchFresh /\ AttemptFresh
    /\ ThreadFresh /\ ExtraFresh /\ LoadFresh /\ BirthFresh /\ CfgShipped
    /\ FileFresh

\* the assignments to second_last_name and second_last_4
DrawFragment ==
    \E raw \in Surnames :
        /\ second_last_name' = Lower(raw)
        /\ second_last_4' = Fragment(Lower(raw))
        /\ fragments' = fragments + 1

\* the initial identity
GenerateFragment ==
    /\ fragments = 0
    /\ DrawFragment
    /\ UNCHANGED <<threadVars, loadVars, birthVars, nameStepVars, pickVars,
                   clickVars, cfgVars, proxyVars,
                   batchVars, pc, attemptVars>>

\* `if attempt > 0` of the retry loop, max_email_attempts = 3
RegenerateFragment ==
    /\ fragments \in 1..2
    /\ DrawFragment
    /\ UNCHANGED <<threadVars, loadVars, birthVars, nameStepVars, pickVars,
                   clickVars, cfgVars, proxyVars,
                   batchVars, pc, attemptVars>>

NameNext == GenerateFragment \/ RegenerateFragment

SpecName == NameInit /\ [][NameNext]_vars

\* C31: the fragment has exactly 4 characters: character k is character k
\* of the lower-cased surname where the surname has one, and 'x' otherwise;
\* for the initial identity and for every retry.
C31_FragmentWidth ==
    fragments >= 1 =>
        /\ Len(second_last_4) = 4
        /\ \A k \in 1..4 :
              second_last_4[k] =
                  (IF k <= Len(second_last_name)
                   THEN second_last_name[k] ELSE "x")
        /\ \A k \in 1..Len(second_last_name) :
              second_last_name[k] \in {"o", "z"}

\* a retry drew the surname "Oz" and the fragment is "ozxx"
C31_Witness ==
    /\ fragments = 2
    /\ second_last_name = <<"o", "z">>
    /\ second_last_4 = <<"o", "z", "x", "x">>

\* the attempt was failed because of an "already taken" conflict
FailedOnConflict ==
    abortCause \in {"conflicts_exhausted", "rejected_after_next"}

\* C32: an attempt is failed because of an "already taken" conflict only
\* when 3 addresses were submitted; a conflict detected earlier, also one
\* detected after the continue control was activated, leads to a retry.
C32_ConflictRetriesBeforeFailing ==
    FailedOnConflict => typed >= max_email_attempts

\* ------------------------------------------ the Name step in detail
\* len(first_name_selectors): 8 in create_account, 6 in
\* create_account_keep_open
FirstNameSelectors == IF entry = "bulk" THEN 8 ELSE 6

NameStepInit ==
    /\ proxies = <<>>
    /\ current_index = 0
    /\ nextRets = <<>>
    /\ randRets = <<>>
    /\ proxyError = "none"
    /\ entry \in {"bulk", "keep"} /\ count = 1 /\ pc = "off"
    /\ BatchFresh /\ AttemptFresh
    /\ ThreadFresh /\ NameFresh /\ PickFresh /\ ClickFresh /\ LoadFresh
    /\ BirthFresh /\ CfgShipped /\ FileFresh
    /\ npc = "enter" /\ sel = 0
    /\ first_name_input = "None" /\ first_name_found = FALSE
    /\ first_typed = FALSE /\ last_typed = FALSE /\ next_calls = 0

NameStepFrame ==
    UNCHANGED <<threadVars, loadVars, birthVars, nameVars, pickVars,
                clickVars, cfgVars, proxyVars, batchVars, pc, attemptVars>>

\* the start of the step's try block; create_account_keep_open reads
\* driver.current_url there, and the handler of the step goes on to step 5
NameEnter ==
    /\ npc = "enter"
    /\ \E raises \in (IF entry = "keep" THEN BOOLEAN ELSE {FALSE}) :
          npc' = (IF raises THEN "step5" ELSE "first_name")
    /\ UNCHANGED <<sel, first_name_input, first_name_found, first_typed,
                   last_typed, next_calls>>
    /\ NameStepFrame

\* one iteration of `for ... in first_name_selectors`: the wait that
\* locates the field, then (scrolling, in create_account_keep_open,)
\* clear() and send_keys(first_name), all inside one try
NameFirstSelector ==
    /\ npc = "first_name"
    /\ sel < FirstNameSelectors
    /\ sel' = sel + 1
    /\ \E out \in {"not_located", "located_fill_raises", "filled"} :
        CASE out = "not_located" ->
                /\ UNCHANGED <<first_name_input, first_name_found,
                               first_typed, npc>>
          [] out = "located_fill_raises" ->
                /\ first_name_input' = "elem"
                /\ UNCHANGED <<first_name_found, first_typed, npc>>
          [] out = "filled" ->
                /\ first_name_input' = "elem"
                /\ first_name_found' = (entry = "bulk")
                /\ first_typed' = TRUE
                /\ npc' = "branch"
    /\ UNCHANGED <<last_typed, next_calls>>
    /\ NameStepFrame

\* the selector list is used up
NameFirstDone ==
    /\ npc = "first_name"
    /\ sel = FirstNameSelectors
    /\ npc' = "branch"
    /\ UNCHANGED <<sel, first_name_input, first_name_found, first_typed,
                   last_typed, next_calls>>
    /\ NameStepFrame

\* `if not first_name_found` (create_account) and
\* `if not first_name_input` (create_account_keep_open)
FirstNameMissing ==
    IF entry = "bulk" THEN ~first_name_found ELSE first_name_input = "None"

\* the branch on the first name; without it the page is looked at for a
\* challenge and the step ends
NameBranch ==
    /\ npc = "branch"
    /\ npc' = (IF FirstNameMissing THEN "step5" ELSE "last_name")
    /\ UNCHANGED <<sel, first_name_input, first_name_found, first_typed,
                   last_typed, next_calls>>
    /\ NameStepFrame

\* the last name: the second text input, else the fallback selectors; in
\* create_account_keep_open the first method is not inside a try of its own
NameLast ==
    /\ npc = "last_name"
    /\ \E out \in {"filled", "not_filled"}
                  \cup (IF entry = "keep" THEN {"raises"} ELSE {}) :
        /\ last_typed' = (out = "filled")
        /\ npc' = (IF out = "raises" THEN "step5" ELSE "click")
    /\ UNCHANGED <<sel, first_name_input, first_name_found, first_typed,
                   next_calls>>
    /\ NameStepFrame

\* self._click_next_button(driver, wait_time=5, context="after name");
\* its result is only logged
NameClick ==
    /\ npc = "click"
    /\ next_calls' = next_calls + 1
    /\ npc' = "step5"
    /\ UNCHANGED <<sel, first_name_input, first_name_found, first_typed,
                   last_typed>>
    /\ NameStepFrame

NameStepNext ==
    \/ NameEnter
    \/ NameFirstSelector
    \/ NameFirstDone
    \/ NameBranch
    \/ NameLast
    \/ NameClick

SpecNameStep == NameStepInit /\ [][NameStepNext]_vars

\* C33: the Name step always goes on to the challenge step, and the last
\* name is typed and the continue control is activated only when the first
\* name was found and typed.
C33_NameStepNeedsFirstName ==
    /\ npc \in {"enter", "first_name", "branch", "last_name", "click", "step5"}
    /\ (last_typed \/ next_calls > 0 \/ npc \in {"last_name", "click"})
          => first_typed

\* C34: the two variants follow the same step logic: on the URL and the
\* page text that the first classification of an attempt looked at,
\* create_account reports Success exactly when create_account_keep_open
\* does.
C34_VariantsAgree ==
    (InAttempt /\ urlC # <<>>) =>
        (IsSuccessOf("bulk", urlC, text6) <=> IsSuccessOf("keep", urlC, text6))

\* --------------------------------- the proxies of a batch and the rotator
\* a batch and a fresh ProxyManager over the same list; a proxy_list of
\* None takes the same branch of `if proxy_list and len(proxy_list) > 0`
\* as the empty list
PickInit ==
    /\ proxies \in Pools
    /\ current_index = 0
    /\ nextRets = <<>>
    /\ randRets = <<>>
    /\ proxyError = "none"
    /\ entry = "none" /\ count = 0 /\ pc = "off"
    /\ BatchFresh /\ AttemptFresh
    /\ ThreadFresh /\ ExtraFresh /\ LoadFresh /\ BirthFresh /\ FileFresh
    /\ self_proxy = None /\ proxy_arg = None /\ proxy_list = proxies
    /\ cfg_use = "False" /\ cfg_type = "http"

\* one iteration of create_bulk_accounts up to the call
\* self.create_account(proxy=proxy); the loop index is the number of calls
\* made so far
PickIter ==
    /\ Len(picks) < MaxCalls
    /\ proxy_arg' = PickProxy(proxy_list, Len(picks))
    /\ picks' = Append(picks, proxy_arg')
    /\ UNCHANGED <<threadVars, loadVars, birthVars, nameVars, nameStepVars,
                   clickVars, self_proxy, proxy_list, cfg_use, cfg_type,
                   proxyVars, batchVars, pc, attemptVars>>

PickNext == PickIter \/ get_next_proxy

SpecPick == PickInit /\ [][PickNext]_vars

\* C35: iteration k (0-based) of a batch passes proxy_list[k mod len] to
\* its attempt, the value the (k+1)-th get_next_proxy call of a fresh
\* ProxyManager over the same list returns; with an empty list it passes
\* None.
C35_BatchPicksLikeRotator ==
    /\ \A k \in 1..Len(picks) :
          picks[k] = (IF Len(proxy_list) > 0
                        THEN proxy_list[((k - 1) % Len(proxy_list)) + 1]
                        ELSE None)
    /\ \A k \in 1..Len(picks) : k <= Len(nextRets) => picks[k] = nextRets[k]
    /\ proxyError = "none"

\* both have gone once round a list of distinct proxies and started again
C35_Witness ==
    /\ Len(proxy_list) >= 2 /\ proxy_list[1] # proxy_list[2]
    /\ Len(picks) > Len(proxy_list) /\ Len(nextRets) > Len(proxy_list)
    /\ picks[Len(proxy_list) + 1] = proxy_list[1]

\* ------------------------------------------------- _click_next_button
\* len(next_selectors)
NextSelectors == 11

ClickInit ==
    /\ proxies = <<>>
    /\ current_index = 0
    /\ nextRets = <<>>
    /\ randRets = <<>>
    /\ proxyError = "none"
    /\ entry = "none" /\ count = 0 /\ pc = "off"
    /\ BatchFresh /\ AttemptFresh
    /\ ThreadFresh /\ NameFresh /\ NameStepFresh /\ PickFresh /\ LoadFresh
    /\ BirthFresh /\ CfgShipped /\ FileFresh
    /\ cpc = "selectors" /\ csel = 0 /\ next_button = "None" /\ located = 0
    /\ nbuttons = 0 /\ btn = 0 /\ scanned = FALSE
    /\ activations = 0 /\ click_ret = "none"

ClickFrame ==
    UNCHANGED <<threadVars, loadVars, birthVars, nameVars, nameStepVars,
                pickVars, cfgVars, proxyVars, batchVars, pc, attemptVars>>

\* one iteration of `for ... in next_selectors`: the wait for a clickable
\* element, scrollIntoView, click(), and the scripted click when click()
\* raised; an exception of the wait, of the scrolling or of the scripted
\* click goes on to the next selector
ClickSelector ==
    /\ cpc = "selectors"
    /\ csel < NextSelectors
    /\ csel' = csel + 1
    /\ \E out \in {"wait_raises", "scroll_raises", "clicked", "js_clicked",
                   "both_raise"} :
        /\ IF out = "wait_raises"
             THEN UNCHANGED <<next_button, located>>
             ELSE next_button' = "elem" /\ located' = located + 1
        /\ IF out \in {"clicked", "js_clicked"}
             THEN /\ activations' = activations + 1
                  /\ click_ret' = "True"
                  /\ cpc' = "done"
             ELSE UNCHANGED <<activations, click_ret, cpc>>
    /\ UNCHANGED <<nbuttons, btn, scanned>>
    /\ ClickFrame

\* after the loop: `if not next_button` guards the scan of all buttons;
\* driver.find_elements raising is caught and False is returned
ClickAfterSelectors ==
    /\ cpc = "selectors"
    /\ csel = NextSelectors
    /\ IF next_button = "None"
         THEN /\ scanned' = TRUE
              /\ \/ /\ click_ret' = "False" /\ cpc' = "done"
                    /\ UNCHANGED nbuttons
                 \/ /\ \E n \in 0..MaxButtons : nbuttons' = n
                    /\ cpc' = "scan"
                    /\ UNCHANGED click_ret
         ELSE /\ click_ret' = "False" /\ cpc' = "done"
              /\ UNCHANGED <<scanned, nbuttons>>
    /\ UNCHANGED <<csel, next_button, located, btn, activations>>
    /\ ClickFrame

\* one iteration of `for btn in all_buttons`: a button whose text holds
\* "Next" or "Avançar" and that is displayed and enabled gets the scripted
\* click; any exception goes on to the next button
ClickScanButton ==
    /\ cpc = "scan"
    /\ btn < nbuttons
    /\ btn' = btn + 1
    /\ \E out \in {"no_match", "raises", "clicked"} :
        IF out = "clicked"
          THEN /\ activations' = activations + 1
               /\ click_ret' = "True"
               /\ cpc' = "done"
          ELSE UNCHANGED <<activations, click_ret, cpc>>
    /\ UNCHANGED <<csel, next_button, located, nbuttons, scanned>>
    /\ ClickFrame

\* the scan is over: `return False`
ClickScanDone ==
    /\ cpc = "scan"
    /\ btn = nbuttons
    /\ click_ret' = "False"
    /\ cpc' = "done"
    /\ UNCHANGED <<csel, next_button, located, nbuttons, btn, scanned,
                   activations>>
    /\ ClickFrame

ClickNext ==
    \/ ClickSelector
    \/ ClickAfterSelectors
    \/ ClickScanButton
    \/ ClickScanDone

SpecClick == ClickInit /\ [][ClickNext]_vars

\* C36: a call of _click_next_button performs at most one activation,
\* returns True exactly when it performed one, and returns False only after
\* the scan of all buttons, also when a selector located an element whose
\* clicks failed.
C36_FalseOnlyAfterScan ==
    /\ activations <= 1
    /\ cpc = "done" => (click_ret = "True" <=> activations = 1)
    /\ click_ret = "False" => scanned

\* the calls are made one after the other by a running interpreter: a step
\* that can be taken is taken
FairInit == Init /\ count <= MaxFairCount

SpecFair == FairInit /\ [][Next]_vars /\ WF_vars(Next)

\* create_bulk_accounts has returned or was left by an exception, or
\* create_account_keep_open has returned
Terminated ==
    \/ pc \in {"batch_done", "batch_aborted"}
    \/ entry = "keep" /\ pc = "returned"

\* the loops stay inside their limits
LoopsBounded ==
    /\ typed <= 3
    /\ elapsed <= 182
    /\ repoll <= 12 /\ waits6 <= 12
    /\ launches <= 1
    /\ i <= count /\ Len(outcomes) <= count

\* C37: every attempt terminates: at most 3 usernames are typed, the
\* challenge wait sleeps at most 180 s plus one poll interval, the grace
\* loops make at most 12 polls, and a batch ends after at most count
\* attempts.
C37_AttemptsTerminate == []LoopsBounded /\ <>Terminated

\* a keep-open attempt has returned after the challenge wait ran into its
\* ceiling, with polls at which the text marker was not seen
C37_Witness ==
    /\ Terminated /\ entry = "keep"
    /\ leftBy = "timeout" /\ ~presentAtAllPolls

\* C38: in create_bulk_accounts the session of an attempt is closed when
\* the attempt has ended, so that no session is open when the next one is
\* opened or when the batch returns.
C38_OneSessionAtATime ==
    (entry = "bulk" /\ CallEnded) => session \in {"none", "closed"}

\* C39: an address is marked accepted exactly when its conflict check found
\* no conflict text or could not read the page: the addresses typed so far
\* then number one more than the conflicts found.
C39_AcceptedIffNoConflictFound ==
    email_accepted <=> (typed > takenCount)

\* a get_random_proxy call has returned in this step
RandomReturned == Len(randRets') = Len(randRets) + 1

\* v is an element of the pool
InPool(v) == \E k \in 1..Len(proxies) : proxies[k] = v

\* neither call changes the pool or the lock, get_random_proxy leaves the
\* cursor alone
PoolFrame ==
    /\ proxies' = proxies
    /\ lock' = lock
    /\ RandomReturned => current_index' = current_index

\* C40: the pool is never mutated after loading: both calls leave proxies
\* unchanged, get_random_proxy returns a member of the pool and leaves the
\* cursor unchanged, get_next_proxy changes nothing but the cursor.
C40_PoolNeverMutated ==
    [][/\ PoolFrame
       /\ RandomReturned =>
             InPool(randRets'[Len(randRets')])]_vars

\* C40 (amended): as above, where get_random_proxy returns a member of the
\* pool when the pool is non-empty and None when it is empty.
C40_PoolNeverMutatedOrNone ==
    [][/\ PoolFrame
       /\ RandomReturned =>
             IF Len(proxies) > 0
               THEN InPool(randRets'[Len(randRets')])
               ELSE randRets'[Len(randRets')] = None]_vars

\* two get_random_proxy calls on a pool of three have returned different
\* members between get_next_proxy calls
C40_Witness ==
    /\ Len(proxies) = 3 /\ Len(randRets) = 2 /\ randRets[1] # randRets[2]
    /\ Len(nextRets) = 2 /\ current_index = 2
====
